---- MODULE Spec2Model ----
(***************************************************************************)
(* State-machine model of crypto_table.py: one run of create_dashboard,    *)
(* the primary API client make_api_request with its 429 retry loop, the    *)
(* four accessors built on it, and the final rendering and save.           *)
(*                                                                         *)
(* Time is counted in seconds.  The wall clock advances only through the   *)
(* two time.sleep calls of the program; a request takes no time.  Every    *)
(* observable step (request, sleep, return, raise, clock read, row, stamp, *)
(* save) is appended to the history variable log.                          *)
(* JSON numbers are taken to be well typed: a body is "ok" (all fields     *)
(* present), "missing" (a key is absent), "garbled" (not JSON) or, for a   *)
(* historical price, "zero" (the price is 0).                              *)
(***************************************************************************)
EXTENDS Integers, Sequences, FiniteSets, TLC

VARIABLES pc, i, data, bitcoin_dominance, total_market_cap, fear_greed,
          clock, start_time, week_ago, end_time, figure, artifact,
          log, call, n429

vars == <<pc, i, data, bitcoin_dominance, total_market_cap, fear_greed,
          clock, start_time, week_ago, end_time, figure, artifact,
          log, call, n429>>

-----------------------------------------------------------------------------
(* Bounds of the model *)

\* most 429 responses the primary host gives in one run
Max429 == 2

\* the run starts 0, 5, ..., 5 * MaxStartLead seconds before a midnight
MaxStartLead == 1

-----------------------------------------------------------------------------
(* Program constants *)

COINS == <<"bitcoin", "ethereum", "solana">>

Cooldown == 60

InterCoinDelay == 5

Day == 86400

WeekDays == 7

None == -1

PrimaryBase == "api.coingecko.com/api/v3"

FngUrl == "api.alternative.me/fng/"

StartTimes == {(WeekDays + 1) * Day - InterCoinDelay * k : k \in 0..MaxStartLead}

-----------------------------------------------------------------------------
(* Values the two services can answer with *)

\* HTTP error statuses a service answers with; status 0 stands for no HTTP
\* response at all (a transport failure)
ErrorStatuses == {429, 500}

\* the two numbers of a complete answer to the global request
GlobalPayload == [btc |-> 52, total |-> 2000]

FngValues == {0, 100}

Body(st, b) == [status |-> st, body |-> b, value |-> None]

\* the responses the primary host can give to the request at position p
Responses(p) ==
  {Body(200, b) : b \in (IF p = "history" THEN {"ok", "missing", "garbled", "zero"}
                                           ELSE {"ok", "missing", "garbled"})}
  \cup {Body(st, "error") : st \in ErrorStatuses}
  \cup {Body(0, "none")}

FngResponses ==
  {[status |-> 200, body |-> "ok", value |-> v] : v \in FngValues}
  \cup {Body(200, "missing")}
  \cup {Body(st, "error") : st \in ErrorStatuses}
  \cup {Body(0, "none")}

-----------------------------------------------------------------------------
(* Pure functions of the program *)

\* str.capitalize on the configured coin identifiers
Capitalize(c) ==
  CASE c = "bitcoin"  -> "Bitcoin"
    [] c = "ethereum" -> "Ethereum"
    [] c = "solana"   -> "Solana"
    [] OTHER          -> c

\* variant: the week is counted back from the start of the run
WeekAgoFromStart(now) == start_time - WeekDays * Day

\* datetime.now() - timedelta(days=7)
WeekAgo(now) == now - WeekDays * Day

\* date.strftime('%d-%m-%Y'): the calendar day of an instant
Strftime(t) == t \div Day

\* end_time.strftime("%Y-%m-%d %H:%M:%S"): calendar day and second of the day
FormatTimestamp(t) == <<t \div Day, t % Day>>

\* variant: every status from 429 up is taken for a rate limit
AttemptResultRetry5xx(o) ==
  IF o.status = 0 THEN "raise"
  ELSE IF o.status >= 400 THEN (IF o.status >= 429 THEN "retry" ELSE "raise")
  ELSE IF o.body = "garbled" THEN "raise"
  ELSE "return"

\* one pass of the try block of make_api_request on a response:
\* "return" the body, "retry" after the cooldown, or "raise"
AttemptResult(o) ==
  IF o.status = 0 THEN "raise"
  ELSE IF o.status >= 400 THEN (IF o.status = 429 THEN "retry" ELSE "raise")
  ELSE IF o.body = "garbled" THEN "raise"
  ELSE "return"

\* variant: the client gives up after a cooldown
AfterCooldownGiveUp(p) == "aborted"

\* the position make_api_request is at after the cooldown: the same request
AfterCooldown(p) == p

\* the request of the call at position p: <<url, params>>
Endpoint(p, coin) ==
  CASE p = "global"  -> <<"global">>
    [] p = "detail"  -> <<"coins", coin>>
    [] p = "history" -> <<"coins", coin, "history">>

Params(p, wk) == IF p = "history" THEN Strftime(wk) ELSE None

-----------------------------------------------------------------------------
(* Events of the history *)

Ev(k, c, u, p, st, b, d, t) ==
  [kind |-> k, call |-> c, url |-> u, param |-> p, status |-> st, body |-> b,
   dur |-> d, t |-> t]

ReqEv(c, base, u, p, o, t) == Ev("req", c, <<base>> \o u, p, o.status, o.body, 0, t)
SleepEv(c, d, t)           == Ev("sleep", c, <<>>, None, 0, "", d, t)
RetEv(c, b, t)             == Ev("ret", c, <<>>, None, 200, b, 0, t)
RaiseEv(c, st, t)          == Ev("raise", c, <<>>, None, st, "", 0, t)
NowEv(coin, t)             == Ev("now", 0, <<>>, None, 0, coin, 0, t)
RowEv(row, t)              == Ev("row", 0, <<>>, None, 0, row, 0, t)
StampEv(t)                 == Ev("stamp", 0, <<>>, None, 0, "", 0, t)
SaveEv(t)                  == Ev("save", 0, <<>>, None, 0, "", 0, t)

\* variant: the 429 pass retries at once, without the sleep
RetryEventsNoSleep(c, u, p, o, t) == <<ReqEv(c, PrimaryBase, u, p, o, t)>>

\* what one 429 pass of the loop does: the request, then time.sleep(60)
RetryEvents(c, u, p, o, t) ==
  <<ReqEv(c, PrimaryBase, u, p, o, t), SleepEv(c, Cooldown, t)>>

\* what the last pass of the loop does: the request, then return or raise
FinalEvents(c, u, p, o, t) ==
  <<ReqEv(c, PrimaryBase, u, p, o, t),
    IF AttemptResult(o) = "return" THEN RetEv(c, o.body, t)
    ELSE RaiseEv(c, o.status, t)>>

-----------------------------------------------------------------------------
(* The accessors: what each makes of the outcome of its request *)

\* variant: get_global_data without its except clauses
GlobalDataResultUncaught(o) ==
  IF AttemptResult(o) = "return" /\ o.body = "ok"
  THEN <<"ok", GlobalPayload.btc, GlobalPayload.total>>
  ELSE <<"raise", None, None>>

\* get_global_data: <<"ok" or "raise", dominance, market cap>>
GlobalDataResult(o) ==
  IF AttemptResult(o) = "return" /\ o.body = "ok"
  THEN <<"ok", GlobalPayload.btc, GlobalPayload.total>>
  ELSE <<"ok", None, None>>

\* get_coin_data
CoinDataResult(o) ==
  IF AttemptResult(o) = "return" /\ o.body = "ok" THEN "ok" ELSE "raise"

\* get_historical_price followed by the week_change division
HistoricalResult(o) ==
  IF AttemptResult(o) = "return" /\ o.body = "ok" THEN "ok" ELSE "raise"

\* variant: get_fear_greed_index without its except clause
FearGreedResultUncaught(o) ==
  IF o.status \in 200..399 /\ o.body = "ok" THEN <<"ok", o.value>>
  ELSE <<"raise", None>>

\* get_fear_greed_index: <<"ok" or "raise", value>>
FearGreedResult(o) ==
  IF o.status \in 200..399 /\ o.body = "ok" THEN <<"ok", o.value>>
  ELSE <<"ok", None>>

-----------------------------------------------------------------------------
(* Control flow of create_dashboard *)

AfterGlobal(res) == IF res = "raise" THEN "aborted" ELSE "detail"

AfterDetail(res) == IF res = "raise" THEN "aborted" ELSE "history"

\* variant: a failed coin is skipped and the loop goes on
AfterHistorySkip(res) == "pause"

AfterHistory(res) == IF res = "raise" THEN "aborted" ELSE "pause"

\* variant: the loop stops one coin early
AfterPauseShort(k) == IF k < Len(COINS) - 1 THEN "detail" ELSE "render"

AfterPause(k) == IF k < Len(COINS) THEN "detail" ELSE "render"

AfterFearGreed(res) == IF res = "raise" THEN "aborted" ELSE "stamp"

\* variant: the new row is put in front
AppendRowFront(rows, coin) == <<Capitalize(coin)>> \o rows

AppendRow(rows, coin) == Append(rows, Capitalize(coin))

GlobalLine(dom, cap) ==
  IF dom # None /\ cap # None
  THEN <<"Bitcoin Dominance / Total Crypto Market Cap", dom, cap>>
  ELSE <<"Global data unavailable", None, None>>

SentimentLine(fg) ==
  IF fg # None THEN <<"Crypto Fear & Greed Index: ", fg>>
  ELSE <<"Crypto Fear & Greed Index: Unavailable", None>>

Figure(rows, gl, sl, ts) == [rows |-> rows, global |-> gl, sentiment |-> sl, stamp |-> ts]

NoFigure == Figure(<<>>, <<>>, <<>>, <<>>)

NoFile == Figure(<<>>, <<"no file">>, <<>>, <<>>)

PreviousFile == Figure(<<>>, <<"previous run">>, <<>>, <<>>)

PrimaryPcs == {"global", "detail", "history"}

Terminal == {"done", "aborted"}

ExitStatus == IF pc = "done" THEN 0 ELSE IF pc = "aborted" THEN 1 ELSE None

-----------------------------------------------------------------------------
Init ==
  /\ pc = "global"
  /\ i = 1
  /\ data = <<>>
  /\ bitcoin_dominance = None
  /\ total_market_cap = None
  /\ fear_greed = None
  /\ clock \in StartTimes
  /\ start_time = clock
  /\ week_ago = None
  /\ end_time = None
  /\ figure = NoFigure
  /\ artifact \in {NoFile, PreviousFile}
  /\ log = <<>>
  /\ call = 1
  /\ n429 = 0

\* make_api_request, a pass of the loop that ends in the 60 second cooldown
RateLimited ==
  /\ pc \in PrimaryPcs
  /\ n429 < Max429
  /\ \E o \in Responses(pc) :
       /\ AttemptResult(o) = "retry"
       /\ log' = log \o RetryEvents(call, Endpoint(pc, COINS[i]), Params(pc, week_ago), o, clock)
  /\ clock' = clock + Cooldown
  /\ n429' = n429 + 1
  /\ pc' = AfterCooldown(pc)
  /\ UNCHANGED <<i, data, bitcoin_dominance, total_market_cap, fear_greed,
                 start_time, week_ago, end_time, figure, artifact, call>>

\* get_global_data on the last pass of its make_api_request
GetGlobalData ==
  /\ pc = "global"
  /\ \E o \in Responses(pc) :
       /\ AttemptResult(o) # "retry"
       /\ LET res == GlobalDataResult(o) IN
            /\ log' = log \o FinalEvents(call, Endpoint(pc, COINS[i]), Params(pc, week_ago), o, clock)
            /\ bitcoin_dominance' = res[2]
            /\ total_market_cap' = res[3]
            /\ pc' = AfterGlobal(res[1])
  /\ call' = call + 1
  /\ UNCHANGED <<i, data, fear_greed, clock, start_time, week_ago, end_time,
                 figure, artifact, n429>>

\* get_coin_data on the last pass of its make_api_request, then week_ago
GetCoinData ==
  /\ pc = "detail"
  /\ \E o \in Responses(pc) :
       /\ AttemptResult(o) # "retry"
       /\ LET res == CoinDataResult(o) IN
            /\ log' = log \o FinalEvents(call, Endpoint(pc, COINS[i]), Params(pc, week_ago), o, clock)
                          \o (IF res = "ok" THEN <<NowEv(COINS[i], clock)>> ELSE <<>>)
            /\ week_ago' = IF res = "ok" THEN WeekAgo(clock) ELSE week_ago
            /\ pc' = AfterDetail(res)
  /\ call' = call + 1
  /\ UNCHANGED <<i, data, bitcoin_dominance, total_market_cap, fear_greed,
                 clock, start_time, end_time, figure, artifact, n429>>

\* get_historical_price on the last pass of its make_api_request, then the
\* week change and the row
GetHistoricalPrice ==
  /\ pc = "history"
  /\ \E o \in Responses(pc) :
       /\ AttemptResult(o) # "retry"
       /\ LET res == HistoricalResult(o) IN
            /\ log' = log \o FinalEvents(call, Endpoint(pc, COINS[i]), Params(pc, week_ago), o, clock)
                          \o (IF res = "ok" THEN <<RowEv(Capitalize(COINS[i]), clock)>> ELSE <<>>)
            /\ data' = IF res = "ok" THEN AppendRow(data, COINS[i]) ELSE data
            /\ pc' = AfterHistory(res)
  /\ call' = call + 1
  /\ UNCHANGED <<i, bitcoin_dominance, total_market_cap, fear_greed, clock,
                 start_time, week_ago, end_time, figure, artifact, n429>>

\* time.sleep(5) at the end of the loop body, then the next coin or the exit
Pause ==
  /\ pc = "pause"
  /\ log' = Append(log, SleepEv(0, InterCoinDelay, clock))
  /\ clock' = clock + InterCoinDelay
  /\ pc' = AfterPause(i)
  /\ i' = IF i < Len(COINS) THEN i + 1 ELSE i
  /\ UNCHANGED <<data, bitcoin_dominance, total_market_cap, fear_greed,
                 start_time, week_ago, end_time, figure, artifact, call, n429>>

\* the table and the global line
Render ==
  /\ pc = "render"
  /\ figure' = Figure(data, GlobalLine(bitcoin_dominance, total_market_cap), <<>>, <<>>)
  /\ pc' = "fng"
  /\ UNCHANGED <<i, data, bitcoin_dominance, total_market_cap, fear_greed, clock,
                 start_time, week_ago, end_time, artifact, log, call, n429>>

\* get_fear_greed_index and the sentiment line
GetFearGreedIndex ==
  /\ pc = "fng"
  /\ \E o \in FngResponses :
       LET res == FearGreedResult(o) IN
         /\ log' = Append(log, ReqEv(call, FngUrl, <<>>, None, o, clock))
         /\ fear_greed' = res[2]
         /\ figure' = [figure EXCEPT !.sentiment = SentimentLine(res[2])]
         /\ pc' = AfterFearGreed(res[1])
  /\ call' = call + 1
  /\ UNCHANGED <<i, data, bitcoin_dominance, total_market_cap, clock,
                 start_time, week_ago, end_time, artifact, n429>>

\* end_time and the timestamp line
Stamp ==
  /\ pc = "stamp"
  /\ end_time' = clock
  /\ figure' = [figure EXCEPT !.stamp = FormatTimestamp(clock)]
  /\ log' = Append(log, StampEv(clock))
  /\ pc' = "save"
  /\ UNCHANGED <<i, data, bitcoin_dominance, total_market_cap, fear_greed, clock,
                 start_time, week_ago, artifact, call, n429>>

\* plt.savefig and the closing console lines
Save ==
  /\ pc = "save"
  /\ artifact' = figure
  /\ log' = Append(log, SaveEv(clock))
  /\ pc' = "done"
  /\ UNCHANGED <<i, data, bitcoin_dominance, total_market_cap, fear_greed, clock,
                 start_time, week_ago, end_time, figure, call, n429>>

Next ==
  \/ RateLimited
  \/ GetGlobalData
  \/ GetCoinData
  \/ GetHistoricalPrice
  \/ Pause
  \/ Render
  \/ GetFearGreedIndex
  \/ Stamp
  \/ Save

Spec == Init /\ [][Next]_vars

\* the interpreter runs the program's next step whenever there is one
FairSpec == Init /\ [][Next]_vars /\ WF_vars(Next)

-----------------------------------------------------------------------------
(* Reading the history *)

Idx == 1..Len(log)

Calls == 1..call

IsPrimaryReq(e) == e.kind = "req" /\ e.url[1] = PrimaryBase
IsGlobalReq(e)  == IsPrimaryReq(e) /\ e.url[2] = "global"
IsCoinReq(e)    == IsPrimaryReq(e) /\ e.url[2] = "coins"
IsDetailReq(e)  == IsCoinReq(e) /\ Len(e.url) = 3
IsHistoryReq(e) == IsCoinReq(e) /\ Len(e.url) = 4
IsFngReq(e)     == e.kind = "req" /\ e.url[1] = FngUrl

CoinIndex(c) == CHOOSE k \in 1..Len(COINS) : COINS[k] = c

\* position of a coin request in the loop: detail of coin k is 2k-1, history 2k
Phase(e) == 2 * CoinIndex(e.url[3]) - (IF IsDetailReq(e) THEN 1 ELSE 0)

CallReqs(c)   == SelectSeq(log, LAMBDA e : e.kind = "req" /\ e.call = c)
CallSleeps(c) == SelectSeq(log, LAMBDA e : e.kind = "sleep" /\ e.call = c)
CallRets(c)   == SelectSeq(log, LAMBDA e : e.kind = "ret" /\ e.call = c)
Pauses        == SelectSeq(log, LAMBDA e : e.kind = "sleep" /\ e.dur = InterCoinDelay)
Rows          == SelectSeq(log, LAMBDA e : e.kind = "row")

\* an attempt that ends in an error other than a rate limit
FailedAttempt(e) == e.status \notin {200, 429} \/ (e.status = 200 /\ e.body = "garbled")

AllRows == [k \in 1..Len(COINS) |-> Capitalize(COINS[k])]

Rendered == {"fng", "stamp", "save", "done"}

-----------------------------------------------------------------------------
(* C1: a make_api_request call that gets k 429 responses and then a 200    *)
(* issues exactly k+1 requests, all with the same URL and parameters,      *)
(* sleeps exactly k times 60 seconds, and returns the body of the 200.     *)
C1_RetryThenReturn ==
  \A c \in Calls :
    LET rs == CallReqs(c)
        sl == CallSleeps(c)
        rt == CallRets(c)
    IN \A k \in 0..Len(rs) :
         ( /\ k < Len(rs)
           /\ IsPrimaryReq(rs[1])
           /\ \A j \in 1..k : rs[j].status = 429
           /\ rs[k + 1].status = 200 /\ rs[k + 1].body # "garbled" )
         => /\ Len(rs) = k + 1
            /\ \A j \in 1..Len(rs) : rs[j].url = rs[1].url /\ rs[j].param = rs[1].param
            /\ Len(sl) = k
            /\ \A j \in 1..Len(sl) : sl[j].dur = 60
            /\ rs[k + 1].t - rs[1].t = 60 * k
            /\ Len(rt) = 1
            /\ rt[1].body = rs[k + 1].body

C1_Witness ==
  \E c \in Calls :
    /\ Len(CallRets(c)) = 1
    /\ Len(CallSleeps(c)) = 2
    /\ Len(CallReqs(c)) = 3

(* C2: an attempt of make_api_request that ends in an HTTP error other     *)
(* than 429, or in another exception, raises at once: no cooldown and no   *)
(* further request of that call follow it, whatever 429 retries came       *)
(* before.                                                                 *)
C2_FailFast ==
  \A p \in Idx :
    (IsPrimaryReq(log[p]) /\ FailedAttempt(log[p]))
    => /\ p + 1 <= Len(log)
       /\ log[p + 1].kind = "raise"
       /\ log[p + 1].call = log[p].call
       /\ log[p + 1].status = log[p].status
       /\ log[p + 1].t = log[p].t
       /\ \A q \in Idx : q > p + 1 => log[q].call # log[p].call
       /\ call > log[p].call
       /\ IsCoinReq(log[p]) => pc = "aborted"

C2_Witness ==
  \E p \in Idx :
    /\ IsPrimaryReq(log[p]) /\ log[p].status = 500
    /\ Len(CallSleeps(log[p].call)) >= 1
    /\ log[Len(log)].kind = "raise"

(* C3: a fatal failure of a coin's detail or history fetch (HTTP error     *)
(* other than 429, transport error, missing field) aborts the run there:   *)
(* the artifact is not written and keeps what it held, the rows gathered   *)
(* so far go nowhere, and the process ends with a non-zero status.         *)
C3_FatalCoinFailure ==
  \A p \in Idx :
    (IsCoinReq(log[p]) /\ (FailedAttempt(log[p]) \/ log[p].body = "missing"))
    => /\ pc = "aborted"
       /\ ExitStatus = 1
       /\ artifact \in {NoFile, PreviousFile}
       /\ figure = NoFigure
       /\ \A q \in Idx : log[q].kind # "save"
       /\ \A q \in Idx : q > p => log[q].kind \in {"ret", "raise"} /\ q = p + 1
       /\ Len(data) = CoinIndex(log[p].url[3]) - 1

C3_Witness ==
  /\ pc = "aborted"
  /\ artifact = PreviousFile
  /\ Len(data) = 1
  /\ IsHistoryReq(log[Len(log) - 1])
  /\ log[Len(log) - 1].body = "missing"

(* C4: at every state the rows gathered are a prefix of the configured     *)
(* coin list, without duplicates; from the rendering step on they are one  *)
(* row per configured coin in the configured order, and so are the rows of *)
(* the figure and of the written artifact.                                 *)
C4_RowsFollowCoins ==
  /\ Len(data) <= Len(COINS)
  /\ \A k \in 1..Len(data) : data[k] = Capitalize(COINS[k])
  /\ \A j, k \in 1..Len(data) : j # k => data[j] # data[k]
  /\ pc \in Rendered \cup {"render"} => data = AllRows
  /\ pc \in Rendered => figure.rows = AllRows
  /\ pc = "done" => artifact.rows = AllRows

C4_Witness ==
  /\ pc = "done"
  /\ artifact.rows = <<"Bitcoin", "Ethereum", "Solana">>

(* C5: get_global_data never propagates.  When its request ends in an HTTP *)
(* error other than 429 or a transport error, or the body lacks a key, it  *)
(* returns (None, None); the run goes on to the coin fetches, only a coin  *)
(* fetch can abort it, and the figure and the written artifact carry       *)
(* 'Global data unavailable'.                                              *)
C5_GlobalNeverPropagates ==
  \A p \in Idx :
    (IsGlobalReq(log[p]) /\ (FailedAttempt(log[p]) \/ log[p].body = "missing"))
    => /\ bitcoin_dominance = None /\ total_market_cap = None
       /\ pc # "global"
       /\ call > log[p].call
       /\ pc = "aborted" => IsCoinReq(log[Len(log) - 1])
       /\ pc \in Rendered => figure.global[1] = "Global data unavailable"
       /\ pc = "done" => /\ artifact.global[1] = "Global data unavailable"
                         /\ artifact.rows = AllRows
                         /\ \E q \in Idx : log[q].kind = "save"

C5_Witness ==
  /\ pc = "done"
  /\ artifact.global[1] = "Global data unavailable"
  /\ \E p \in Idx : IsGlobalReq(log[p]) /\ log[p].body = "missing"
  /\ \E p \in Idx : IsGlobalReq(log[p]) /\ log[p].status = 429

(* C6: get_fear_greed_index makes one request and never retries or         *)
(* propagates: on any failure, a 429 included, there is no cooldown, the   *)
(* value is None, and the run goes on to write the artifact with every     *)
(* coin row and the sentiment line 'Unavailable'.                          *)
C6_SentimentNeverPropagates ==
  \A p \in Idx :
    (IsFngReq(log[p]) /\ (log[p].status # 200 \/ log[p].body # "ok"))
    => /\ \A q \in Idx : IsFngReq(log[q]) => q = p
       /\ \A q \in Idx : q > p => log[q].kind \in {"stamp", "save"}
       /\ CallSleeps(log[p].call) = <<>>
       /\ clock = log[p].t
       /\ fear_greed = None
       /\ pc \in {"stamp", "save", "done"}
       /\ figure.sentiment[1] = "Crypto Fear & Greed Index: Unavailable"
       /\ figure.rows = AllRows
       /\ pc = "done" => /\ artifact.sentiment[1] = "Crypto Fear & Greed Index: Unavailable"
                         /\ artifact.rows = AllRows

C6_Witness ==
  /\ pc = "done"
  /\ artifact.sentiment[1] = "Crypto Fear & Greed Index: Unavailable"
  /\ \E p \in Idx : IsFngReq(log[p]) /\ log[p].status = 429

(* C7: with finitely many 429 responses the run ends, completed or         *)
(* aborted; and the client never gives up on a 429: a pass that got a 429  *)
(* leaves the run inside the same call, after one cooldown, neither        *)
(* completed nor aborted.                                                  *)
RateLimitedPass ==
  /\ Len(log') > Len(log)
  /\ IsPrimaryReq(log'[Len(log) + 1])
  /\ log'[Len(log) + 1].status = 429

C7_NeverGivesUp ==
  RateLimitedPass => /\ pc' = pc
                     /\ pc' \notin Terminal
                     /\ call' = call
                     /\ pc' \in PrimaryPcs
                     /\ clock' = clock + 60

C7_EndsUnlessRateLimitedForever ==
  /\ <>(pc \in Terminal)
  /\ [][C7_NeverGivesUp]_vars

C7_Witness ==
  /\ pc \in Terminal
  /\ n429 >= 2
  /\ \E c \in Calls : Len(CallSleeps(c)) = 2

(* C8: the steps of a run come in a fixed order: the global fetch is over  *)
(* before any coin request; a coin's detail fetch comes before its history *)
(* fetch and all requests of a coin before those of the next; the          *)
(* sentiment request comes after the last coin's row; the stamp after the  *)
(* sentiment request; the save after all of these.                         *)
Stage(e) ==
  CASE e.call = 1 /\ e.kind \in {"req", "sleep", "ret", "raise"} -> 0
    [] IsCoinReq(e)     -> Phase(e)
    [] e.kind = "now"   -> 2 * CoinIndex(e.body) - 1
    [] e.kind = "row"   -> 2 * CHOOSE k \in 1..Len(COINS) : Capitalize(COINS[k]) = e.body
    [] IsFngReq(e)      -> 2 * Len(COINS) + 1
    [] e.kind = "stamp" -> 2 * Len(COINS) + 2
    [] e.kind = "save"  -> 2 * Len(COINS) + 3
    [] OTHER            -> None

\* the stages of the history, in the order of the events
Stages ==
  LET all == [p \in Idx |-> Stage(log[p])]
  IN  SelectSeq(all, LAMBDA n : n # None)

C8_FixedOrder ==
  \* stages never go back: global, detail 1, history 1, ..., sentiment, stamp, save
  /\ LET st == Stages IN \A p \in 1..(Len(st) - 1) : st[p] <= st[p + 1]
  \* the global call is over before the first coin request
  /\ (\E q \in Idx : IsCoinReq(log[q]))
       => \E p \in Idx : log[p].call = 1 /\ log[p].kind \in {"ret", "raise"}
  \* a history request has its coin's detail request, answered 200, before it
  /\ \A q \in Idx : IsHistoryReq(log[q]) =>
       \E p \in 1..(q - 1) : /\ IsDetailReq(log[p]) /\ log[p].status = 200
                             /\ log[p].url[3] = log[q].url[3]
  \* the sentiment request has the last coin's row before it
  /\ (\E q \in Idx : IsFngReq(log[q]))
       => \E p \in Idx : log[p].kind = "row" /\ log[p].body = Capitalize(COINS[Len(COINS)])
  \* the stamp has the sentiment request before it
  /\ (\E q \in Idx : log[q].kind = "stamp") => \E p \in Idx : IsFngReq(log[p])
  \* the save has the stamp before it and nothing after it
  /\ (\E q \in Idx : log[q].kind = "save")
       => /\ \E p \in Idx : log[p].kind = "stamp"
          /\ log[Len(log)].kind = "save"

C8_Witness ==
  /\ pc = "done"
  /\ n429 >= 1
  /\ Len(Rows) = Len(COINS)

(* C9 as stated: the date of every history query is the day of the stamped *)
(* instant minus 7 days.                                                   *)
C9_Original ==
  pc = "done" =>
    \A p \in Idx : IsHistoryReq(log[p]) => log[p].param = Strftime(end_time - 7 * Day)

(* C9 as amended: the date of a coin's history query is the day, 7 days    *)
(* back, of the instant read in that coin's own pass of the loop once its  *)
(* detail fetch has returned.  The instants of successive coins are at     *)
(* least one 5 second pause apart, and each is at least one pause before   *)
(* the stamped instant.                                                    *)
NowOf(coin) == SelectSeq(log, LAMBDA e : e.kind = "now" /\ e.body = coin)

C9_DateFromOwnInstant ==
  /\ \A p \in Idx : IsHistoryReq(log[p]) =>
       LET nw == NowOf(log[p].url[3]) IN
         /\ Len(nw) = 1
         /\ nw[1].t <= log[p].t
         /\ log[p].param = (nw[1].t - 7 * Day) \div Day
  /\ \A k \in 1..(Len(COINS) - 1) :
       (NowOf(COINS[k]) # <<>> /\ NowOf(COINS[k + 1]) # <<>>)
         => NowOf(COINS[k + 1])[1].t >= NowOf(COINS[k])[1].t + 5
  /\ end_time # None =>
       \A k \in 1..Len(COINS) : /\ NowOf(COINS[k]) # <<>>
                                /\ end_time >= NowOf(COINS[k])[1].t + 5

C9_Witness ==
  /\ pc = "done"
  /\ \E p, q \in Idx : /\ IsHistoryReq(log[p]) /\ IsHistoryReq(log[q])
                       /\ log[p].param # log[q].param
  /\ \E p \in Idx : IsHistoryReq(log[p]) /\ log[p].param # Strftime(end_time - 7 * Day)

(* C10: the 5 second pause is taken between consecutive coins only: a      *)
(* completed run over N coins has taken N-1 pauses, and none after the     *)
(* last coin's row.                                                        *)
C10_PausesBetweenCoins ==
  /\ \A p \in Idx : log[p].kind = "row" =>
       \A q \in Idx : (q > p /\ IsCoinReq(log[q])) =>
         \E r \in (p + 1)..(q - 1) : log[r].kind = "sleep" /\ log[r].dur = 5
  /\ pc = "done" =>
       /\ Len(Pauses) = Len(COINS) - 1
       /\ \A p, q \in Idx :
            (log[p].kind = "row" /\ log[p].body = Capitalize(COINS[Len(COINS)]) /\ q > p)
              => ~(log[q].kind = "sleep" /\ log[q].dur = 5)

\* what the program does: one pause after every coin, the last included
C10_PausePerCoin ==
  /\ Len(Pauses) = (IF pc = "pause" THEN Len(data) - 1 ELSE Len(data))
  /\ pc = "done" => Len(Pauses) = Len(COINS)

====
